---- MODULE Spec2Model ----
(***************************************************************************)
(* Model of src/index.js: the Lambda handler of the POS transaction API.   *)
(*                                                                         *)
(* One invocation of exports.handler is a chain of steps (authorize,       *)
(* parameter extraction, pool.connect, client.query, rows.map, the         *)
(* catch/finally of queryTransactions, the response or the handler's       *)
(* catch).  The warm Lambda container serves one event at a time; the pool *)
(* outlives the invocations.                                               *)
(*                                                                         *)
(* JavaScript values:                                                      *)
(*   - strings are TLA+ strings; undefined and null are the sentinels      *)
(*     Undefined and Null;                                                 *)
(*   - a JS number is [nan |-> TRUE] or [nan |-> FALSE, v |-> n], n the    *)
(*     value in thousandths (100.00 is 100000); the amounts of the model   *)
(*     are far below 2^53 / 1000, where double arithmetic on two-decimal   *)
(*     values followed by toFixed(2) is exact in hundredths;               *)
(*   - a Date is the ISO-8601 string toISOString() gives for it, or        *)
(*     InvalidDate.                                                        *)
(***************************************************************************)
EXTENDS Integers, Sequences, FiniteSets, TLC

\* Largest number of rows one query returns in the model.
MaxRows == 2

-----------------------------------------------------------------------------
(* JavaScript values and string primitives *)

Undefined == "<undefined>"
Null == "<null>"
NoError == "<no error>"
InvalidDate == "<Invalid Date>"

\* JS truthiness of a string-or-undefined value: !v
Falsy(v) == v \in {Undefined, Null, ""}

\* a || b
Or(a, b) == IF Falsy(a) THEN b ELSE a

\* String.prototype.includes
Includes(s, sub) ==
    \E i \in 1..(Len(s) - Len(sub) + 1) : SubSeq(s, i, i + Len(sub) - 1) = sub

\* String.prototype.split with a one-character separator
RECURSIVE Split(_, _)
Split(s, sep) ==
    IF \E i \in 1..Len(s) : SubSeq(s, i, i) = sep
    THEN LET i == CHOOSE k \in 1..Len(s) :
                      /\ SubSeq(s, k, k) = sep
                      /\ \A j \in 1..(k - 1) : SubSeq(s, j, j) # sep
         IN  <<SubSeq(s, 1, i - 1)>> \o Split(SubSeq(s, i + 1, Len(s)), sep)
    ELSE <<s>>

\* String.prototype.replace(pattern, by) with a one-character string pattern:
\* the first occurrence only
Replace(s, pat, by) ==
    IF \E i \in 1..Len(s) : SubSeq(s, i, i) = pat
    THEN LET i == CHOOSE k \in 1..Len(s) :
                      /\ SubSeq(s, k, k) = pat
                      /\ \A j \in 1..(k - 1) : SubSeq(s, j, j) # pat
         IN  SubSeq(s, 1, i - 1) \o by \o SubSeq(s, i + 1, Len(s))
    ELSE s

NaN == [nan |-> TRUE]
Num(n) == [nan |-> FALSE, v |-> n]

\* parseFloat of a column value as pg returns it: a decimal string (held as
\* its value in thousandths) or null; parseFloat(null) is NaN
ParseFloat(col) == IF col.null THEN NaN ELSE Num(col.v)

\* Number.prototype.toFixed(2): "NaN" for NaN, else the decimal string with
\* two fraction digits (held as the signed count of hundredths); the sign is
\* taken off first and a tie goes to the larger magnitude
ToFixed2(x) ==
    IF x.nan THEN [nan |-> TRUE]
    ELSE LET a == IF x.v < 0 THEN -x.v ELSE x.v
             n == (a + 5) \div 10
         IN  [nan |-> FALSE, hundredths |-> IF x.v < 0 THEN -n ELSE n]

\* parseFloat of a toFixed(2) string
ParseFixed(s) == IF s.nan THEN NaN ELSE Num(s.hundredths * 10)

\* a - b on JS numbers
Minus(a, b) == IF a.nan \/ b.nan THEN NaN ELSE Num(a.v - b.v)

\* JSON.stringify of a number: NaN is written as null
JsonNumber(x) == IF x.nan THEN [json |-> "null"] ELSE [json |-> "number", v |-> x.v]

-----------------------------------------------------------------------------
(* authorize *)

MsgTokenMissing == "Authorization token missing."
MsgTokenFormat == "Invalid token format. Expected: Bearer <token>"
MsgUnauthorized == "Unauthorized or expired token."

\* jwt.verify(jwtToken, secret): NoError for a token signed with the secret
\* and not expired, else the library's error text
JwtVerify(jwtToken) ==
    CASE jwtToken = "g" -> NoError
      [] jwtToken = "x" -> "jwt expired"
      [] jwtToken = "f" -> "invalid signature"
      [] OTHER -> "jwt malformed"

\* authorize(token): NoError when it returns true, else the message of the
\* Error it throws
Authorize(token) ==
    IF Falsy(token) THEN MsgTokenMissing
    ELSE LET parts == Split(token, " ")
             scheme == parts[1]
             jwtToken == IF Len(parts) >= 2 THEN parts[2] ELSE Undefined
         IN  IF scheme # "Bearer" \/ Falsy(jwtToken) THEN MsgTokenFormat
             ELSE IF JwtVerify(jwtToken) = NoError THEN NoError
             ELSE MsgUnauthorized

-----------------------------------------------------------------------------
(* the pos_order table and QUERY_SQL *)

Col(n) == [null |-> FALSE, v |-> n]
NullCol == [null |-> TRUE]

\* pos_order rows in a payable state, in ascending date_order (PostgreSQL
\* sorts 'infinity' after every finite timestamp and NULL last).  Amounts in
\* thousandths.
PosOrders ==
    << [name |-> "POS/001", id |-> 1, date_order |-> "2024-01-01T09:30:00.000Z",
        amount_total |-> Col(100000), amount_tax |-> Col(8000)],
       [name |-> "POS/002", id |-> 2, date_order |-> "2024-01-01T18:05:10.250Z",
        amount_total |-> Col(125), amount_tax |-> Col(4)],
       [name |-> "POS/003", id |-> 3, date_order |-> "2024-01-02T11:00:00.000Z",
        amount_total |-> Col(-10375), amount_tax |-> Col(-125)],
       [name |-> "POS/004", id |-> 4, date_order |-> "2024-01-02T12:00:00.000Z",
        amount_total |-> Col(0), amount_tax |-> Col(0)],
       [name |-> "POS/005", id |-> 5, date_order |-> "2024-01-03T08:00:00.000Z",
        amount_total |-> NullCol, amount_tax |-> Col(1500)],
       [name |-> "POS/006", id |-> 6, date_order |-> "infinity",
        amount_total |-> Col(2000), amount_tax |-> Col(0)],
       [name |-> "POS/007", id |-> 7, date_order |-> Null,
        amount_total |-> Col(19990), amount_tax |-> Col(1817)] >>

\* SQL a - b: null if either operand is null
SqlMinus(a, b) == IF a.null \/ b.null THEN NullCol ELSE Col(a.v - b.v)

\* The SELECT list of QUERY_SQL applied to one pos_order row
SelectRow(po) ==
    [receipt_check_number |-> po.name,
     transaction_unique_id |-> po.id,
     transaction_datetime |-> po.date_order,
     transaction_gross |-> po.amount_total,
     transaction_tax |-> po.amount_tax,
     calculated_net |-> SqlMinus(po.amount_total, po.amount_tax),
     transaction_service_charge |-> Col(0)]

\* The strictly increasing index sequences of length n into 1..m
Picks(m, n) == {q \in [1..n -> 1..m] : \A i \in 1..(n - 1) : q[i] < q[i + 1]}

\* The row sets QUERY_SQL can return: the WHERE clause keeps some of the
\* orders, ORDER BY date_order ASC keeps them in table order
QueryResults ==
    {[i \in 1..Len(p) |-> SelectRow(PosOrders[p[i]])] :
        p \in UNION {Picks(Len(PosOrders), n) : n \in 0..MaxRows}}

ConnectErrors == {"connect ECONNREFUSED 10.0.0.5:5432",
                  "timeout exceeded when trying to connect"}
QueryErrors == {"invalid input syntax for type date",
                "Unauthorized: permission denied for table pos_order"}

\* What the database does for one invocation
DbBehaviours ==
    {[connect |-> e, query |-> NoError, rows |-> <<>>] : e \in ConnectErrors}
    \cup {[connect |-> NoError, query |-> e, rows |-> <<>>] : e \in QueryErrors}
    \cup {[connect |-> NoError, query |-> NoError, rows |-> r] : r \in QueryResults}

-----------------------------------------------------------------------------
(* rows.map(row => ...) *)

\* new Date(v) for a timestamp column as pg hands it over: a Date, null
\* (new Date(null) is the epoch) or Infinity (an invalid Date)
NewDate(v) ==
    CASE v = Null -> "1970-01-01T00:00:00.000Z"
      [] v = "infinity" -> InvalidDate
      [] OTHER -> v

\* String(v) of a text column
StringOf(v) == IF v = Null THEN "null" ELSE v

\* Does the map callback throw on this row?  toISOString() throws a
\* RangeError on an invalid Date
FormatThrows(row) == NewDate(row.transaction_datetime) = InvalidDate

MsgInvalidTime == "Invalid time value"

\* gross - net - tax - serviceCharge
DiscountOf(gross, net, tax, serviceCharge) ==
    Minus(Minus(Minus(gross, net), tax), serviceCharge)

\* The record the map callback returns for one row
FormatRow(row) ==
    LET iso == NewDate(row.transaction_datetime)
        gross == ParseFixed(ToFixed2(ParseFloat(row.transaction_gross)))
        tax == ParseFixed(ToFixed2(ParseFloat(row.transaction_tax)))
        serviceCharge ==
            ParseFixed(ToFixed2(ParseFloat(row.transaction_service_charge)))
        net == ParseFixed(ToFixed2(ParseFloat(row.calculated_net)))
        discount == ParseFixed(ToFixed2(DiscountOf(gross, net, tax, serviceCharge)))
    IN  [Receipt_Check_Number |-> StringOf(row.receipt_check_number),
         Transaction_Unique_Id |-> ToString(row.transaction_unique_id),
         Transaction_Date |-> Split(iso, "T")[1],
         Transaction_Time |-> Replace(Split(iso, "T")[2], "Z", ""),
         Transaction_Gross |-> gross,
         Transaction_Net |-> net,
         Transaction_Tax |-> tax,
         Transaction_Service_Charge |-> serviceCharge,
         Transaction_Discount |-> discount]

\* A variant of the map that returns the records newest first
FormatRowsReversed(rows) ==
    [i \in 1..Len(rows) |-> FormatRow(rows[Len(rows) + 1 - i])]

\* result.rows.map(...)
FormatRows(rows) == [i \in 1..Len(rows) |-> FormatRow(rows[i])]

\* JSON.stringify of one formatted record
JsonRecord(t) ==
    [Receipt_Check_Number |-> t.Receipt_Check_Number,
     Transaction_Unique_Id |-> t.Transaction_Unique_Id,
     Transaction_Date |-> t.Transaction_Date,
     Transaction_Time |-> t.Transaction_Time,
     Transaction_Gross |-> JsonNumber(t.Transaction_Gross),
     Transaction_Net |-> JsonNumber(t.Transaction_Net),
     Transaction_Tax |-> JsonNumber(t.Transaction_Tax),
     Transaction_Service_Charge |-> JsonNumber(t.Transaction_Service_Charge),
     Transaction_Discount |-> JsonNumber(t.Transaction_Discount)]

\* JSON.stringify(transactions)
JsonArray(ts) == [kind |-> "array", items |-> [i \in 1..Len(ts) |-> JsonRecord(ts[i])]]

\* JSON.stringify({ message: m })
JsonMessage(m) == [kind |-> "object", message |-> m]

-----------------------------------------------------------------------------
(* events *)

HeaderValues ==
    {"", "Bearer", "Basic g", "bearer g", "Bearer  g",
     "Bearer g", "Bearer x", "Bearer f", "Bearer g extra"}

\* event.headers: absent, or an object carrying the header under one of the
\* two spellings the handler reads
HeaderObjects ==
    {[present |-> FALSE]}
    \cup {[present |-> TRUE, Authorization |-> a, authorization |-> Undefined] :
            a \in HeaderValues \cup {Undefined}}
    \cup {[present |-> TRUE, Authorization |-> Undefined, authorization |-> a] :
            a \in HeaderValues}

DateValues == {"", "2024-01-01", "2024-13-99", "01/02/2024"}

ParamKeys == {"start-Date", "end-Date", "startDate", "endDate"}

Params(startKey, endKey, s, e) ==
    [k \in ParamKeys |-> IF k = startKey THEN s ELSE IF k = endKey THEN e
                         ELSE Undefined]

\* event.queryStringParameters: null (API Gateway sends null for a request
\* without a query string), or the two dates under one spelling
QueryObjects ==
    {[present |-> FALSE]}
    \cup {[present |-> TRUE, params |-> Params("start-Date", "end-Date", s, e)] :
            s \in DateValues \cup {Undefined}, e \in DateValues \cup {Undefined}}
    \cup {[present |-> TRUE, params |-> Params("startDate", "endDate", s, e)] :
            s \in DateValues \cup {Undefined}, e \in DateValues \cup {Undefined}}

Events == [headers : HeaderObjects, queryStringParameters : QueryObjects]

NoEvent == [headers |-> [present |-> FALSE],
            queryStringParameters |-> [present |-> FALSE]]

-----------------------------------------------------------------------------
(* state *)

VARIABLES
    pc,           \* where the invocation is
    event,        \* the event being handled
    db,           \* what the database does during this invocation
    startDate,    \* handler local
    endDate,      \* handler local
    client,       \* queryTransactions local: Undefined or the pooled client
    result,       \* result.rows
    formatted,    \* formattedTransactions
    caught,       \* the error caught by queryTransactions' catch, or NoError
    thrown,       \* message of the Error on its way to the handler's catch
    response,     \* the object the handler returned, or NoResponse
    connectCalls, \* pool.connect calls of this invocation
    acquired,     \* clients pool.connect handed over in this invocation
    released,     \* client.release calls of this invocation
    held,         \* clients checked out of the pool
    queryArgs,    \* the parameter lists passed to client.query
    logged,       \* what console.error('Database query error:', ...) wrote
    prev          \* the previous invocation, where the run remembers it

vars == <<pc, event, db, startDate, endDate, client, result, formatted, caught,
          thrown, response, connectCalls, acquired, released, held, queryArgs,
          logged, prev>>

NoResponse == [statusCode |-> 0]
NoPrev == [known |-> FALSE]
NoDb == [connect |-> NoError, query |-> NoError, rows |-> <<>>]

JsonHeaders == [ContentType |-> "application/json"]

MsgMissingDates == "Missing start-Date or end-Date query parameters"
MsgQueryFailed == "Failed to retrieve transactions from database."
MsgUnauthorizedBody == "Unauthorized. Please check your JWT token."
MsgInternalPrefix == "Internal server error: "
MsgNoHeaders == "Cannot read properties of undefined (reading 'Authorization')"
MsgNoParams == "Cannot read properties of null (reading 'start-Date')"

Init ==
    /\ pc = "idle"
    /\ event = NoEvent
    /\ db = NoDb
    /\ startDate = Undefined
    /\ endDate = Undefined
    /\ client = Undefined
    /\ result = <<>>
    /\ formatted = <<>>
    /\ caught = NoError
    /\ thrown = NoError
    /\ response = NoResponse
    /\ connectCalls = 0
    /\ acquired = 0
    /\ released = 0
    /\ held = 0
    /\ queryArgs = <<>>
    /\ logged = <<>>
    /\ prev = NoPrev

\* The runtime calls exports.handler(event)
Invoke(events) ==
    /\ pc = "idle"
    /\ event' \in events
    /\ db' \in DbBehaviours
    /\ pc' = "auth"
    /\ UNCHANGED <<startDate, endDate, client, result, formatted, caught,
                   thrown, response, connectCalls, acquired, released, held,
                   queryArgs, logged, prev>>

Receive == Invoke(Events)

\* 1. Authorization check
AuthorizeStep ==
    /\ pc = "auth"
    /\ IF ~event.headers.present
       THEN /\ thrown' = MsgNoHeaders
            /\ pc' = "catch"
       ELSE LET authHeader == Or(event.headers.Authorization,
                                 event.headers.authorization)
                err == Authorize(authHeader)
            IN  IF err = NoError
                THEN /\ pc' = "params"
                     /\ UNCHANGED thrown
                ELSE /\ thrown' = err
                     /\ pc' = "catch"
    /\ UNCHANGED <<event, db, startDate, endDate, client, result, formatted,
                   caught, response, connectCalls, acquired, released, held,
                   queryArgs, logged, prev>>

BadRequest == [statusCode |-> 400, headers |-> JsonHeaders,
               body |-> JsonMessage(MsgMissingDates)]

\* A variant of the extraction without the presence check
ExtractParamsUnchecked ==
    /\ pc = "params"
    /\ IF ~event.queryStringParameters.present
       THEN /\ thrown' = MsgNoParams
            /\ pc' = "catch"
            /\ UNCHANGED <<startDate, endDate>>
       ELSE /\ startDate' = event.queryStringParameters.params["start-Date"]
            /\ endDate' = event.queryStringParameters.params["end-Date"]
            /\ pc' = "connect"
            /\ UNCHANGED thrown
    /\ UNCHANGED <<event, db, client, result, formatted, caught, response,
                   connectCalls, acquired, released, held, queryArgs, logged,
                   prev>>

\* 2. Parameter extraction and the presence check
ExtractParams ==
    /\ pc = "params"
    /\ IF ~event.queryStringParameters.present
       THEN /\ thrown' = MsgNoParams
            /\ pc' = "catch"
            /\ UNCHANGED <<startDate, endDate, response>>
       ELSE LET s == event.queryStringParameters.params["start-Date"]
                e == event.queryStringParameters.params["end-Date"]
            IN  /\ startDate' = s
                /\ endDate' = e
                /\ UNCHANGED thrown
                /\ IF Falsy(s) \/ Falsy(e)
                   THEN /\ response' = BadRequest
                        /\ pc' = "done"
                   ELSE /\ pc' = "connect"
                        /\ UNCHANGED response
    /\ UNCHANGED <<event, db, client, result, formatted, caught, connectCalls,
                   acquired, released, held, queryArgs, logged, prev>>

\* client = await pool.connect()
Connect ==
    /\ pc = "connect"
    /\ connectCalls' = connectCalls + 1
    /\ IF db.connect = NoError
       THEN /\ client' = "client"
            /\ acquired' = acquired + 1
            /\ held' = held + 1
            /\ pc' = "query"
            /\ UNCHANGED caught
       ELSE /\ caught' = db.connect
            /\ pc' = "qcatch"
            /\ UNCHANGED <<client, acquired, held>>
    /\ UNCHANGED <<event, db, startDate, endDate, result, formatted, thrown,
                   response, released, queryArgs, logged, prev>>

\* const result = await client.query(QUERY_SQL, [startDate, endDate])
Query ==
    /\ pc = "query"
    /\ queryArgs' = Append(queryArgs, <<startDate, endDate>>)
    /\ IF db.query = NoError
       THEN /\ result' = db.rows
            /\ pc' = "format"
            /\ UNCHANGED caught
       ELSE /\ caught' = db.query
            /\ pc' = "qcatch"
            /\ UNCHANGED result
    /\ UNCHANGED <<event, db, startDate, endDate, client, formatted, thrown,
                   response, connectCalls, acquired, released, held, logged, prev>>

\* const formattedTransactions = result.rows.map(...); return it
Format ==
    /\ pc = "format"
    /\ IF \E i \in 1..Len(result) : FormatThrows(result[i])
       THEN /\ caught' = MsgInvalidTime
            /\ pc' = "qcatch"
            /\ UNCHANGED formatted
       ELSE /\ formatted' = FormatRows(result)
            /\ pc' = "qfinally"
            /\ UNCHANGED caught
    /\ UNCHANGED <<event, db, startDate, endDate, client, result, thrown,
                   response, connectCalls, acquired, released, held, queryArgs,
                   logged, prev>>

\* A variant of the catch that rethrows the error it caught
QueryCatchRethrows ==
    /\ pc = "qcatch"
    /\ logged' = Append(logged, caught)
    /\ thrown' = caught
    /\ pc' = "qfinally"
    /\ UNCHANGED <<event, db, startDate, endDate, client, result, formatted,
                   caught, response, connectCalls, acquired, released, held,
                   queryArgs, prev>>

\* catch (error) { console.error(...); throw new Error('Failed to ...') }
QueryCatch ==
    /\ pc = "qcatch"
    /\ logged' = Append(logged, caught)
    /\ thrown' = MsgQueryFailed
    /\ pc' = "qfinally"
    /\ UNCHANGED <<event, db, startDate, endDate, client, result, formatted,
                   caught, response, connectCalls, acquired, released, held,
                   queryArgs, prev>>

\* A variant that releases the client at the end of the try body instead of
\* in a finally: no release when an error is on its way out
QueryFinallyOnSuccessOnly ==
    /\ pc = "qfinally"
    /\ IF ~Falsy(client) /\ thrown = NoError
       THEN /\ released' = released + 1
            /\ held' = held - 1
       ELSE UNCHANGED <<released, held>>
    /\ pc' = IF thrown = NoError THEN "respond" ELSE "catch"
    /\ UNCHANGED <<event, db, startDate, endDate, client, result, formatted,
                   caught, thrown, response, connectCalls, acquired, queryArgs,
                   logged, prev>>

\* finally { if (client) client.release() }
QueryFinally ==
    /\ pc = "qfinally"
    /\ IF ~Falsy(client)
       THEN /\ released' = released + 1
            /\ held' = held - 1
       ELSE UNCHANGED <<released, held>>
    /\ pc' = IF thrown = NoError THEN "respond" ELSE "catch"
    /\ UNCHANGED <<event, db, startDate, endDate, client, result, formatted,
                   caught, thrown, response, connectCalls, acquired, queryArgs,
                   logged, prev>>

\* 4. return { statusCode: 200, ... body: JSON.stringify(transactions) }
Respond ==
    /\ pc = "respond"
    /\ response' = [statusCode |-> 200, headers |-> JsonHeaders,
                    body |-> JsonArray(formatted)]
    /\ pc' = "done"
    /\ UNCHANGED <<event, db, startDate, endDate, client, result, formatted,
                   caught, thrown, connectCalls, acquired, released, held,
                   queryArgs, logged, prev>>

\* A variant of the status test that matches any mention of authorization
StatusOfAnyMention(message) == IF Includes(message, "uthoriz") THEN 401 ELSE 500

\* error.message.includes('Unauthorized') ? 401 : 500
StatusOf(message) == IF Includes(message, "Unauthorized") THEN 401 ELSE 500

\* The response the handler's catch block builds
ErrorResponse(message) ==
    LET statusCode == StatusOf(message)
    IN  [statusCode |-> statusCode, headers |-> JsonHeaders,
         body |-> JsonMessage(IF statusCode = 401 THEN MsgUnauthorizedBody
                              ELSE MsgInternalPrefix \o message)]

\* catch (error) { ... } of the handler
HandlerCatch ==
    /\ pc = "catch"
    /\ response' = ErrorResponse(thrown)
    /\ pc' = "done"
    /\ UNCHANGED <<event, db, startDate, endDate, client, result, formatted,
                   caught, thrown, connectCalls, acquired, released, held,
                   queryArgs, logged, prev>>

\* The response has gone back to the runtime: the invocation's locals are
\* gone, the pool stays
Finish(remembered) ==
    /\ pc = "done"
    /\ pc' = "idle"
    /\ event' = NoEvent
    /\ db' = NoDb
    /\ startDate' = Undefined
    /\ endDate' = Undefined
    /\ client' = Undefined
    /\ result' = <<>>
    /\ formatted' = <<>>
    /\ caught' = NoError
    /\ thrown' = NoError
    /\ response' = NoResponse
    /\ connectCalls' = 0
    /\ acquired' = 0
    /\ released' = 0
    /\ queryArgs' = <<>>
    /\ logged' = <<>>
    /\ prev' = remembered
    /\ UNCHANGED held

Return == Finish(prev)

Next ==
    \/ Receive
    \/ AuthorizeStep
    \/ ExtractParams
    \/ Connect
    \/ Query
    \/ Format
    \/ QueryCatch
    \/ QueryFinally
    \/ Respond
    \/ HandlerCatch
    \/ Return

Spec == Init /\ [][Next]_vars

-----------------------------------------------------------------------------
(* a second specification: authorized requests with both dates, under either
   spelling of the keys, each invocation remembering the one before it *)

PairEvents ==
    {e \in Events :
        /\ e.headers = [present |-> TRUE, Authorization |-> "Bearer g",
                        authorization |-> Undefined]
        /\ e.queryStringParameters.present
        /\ \E s \in {"2024-01-01", "2024-13-99"}, d \in {"2024-01-01", "2024-13-99"} :
              e.queryStringParameters.params
                  \in {Params("start-Date", "end-Date", s, d),
                       Params("startDate", "endDate", s, d)}}

ReceivePair == Invoke(PairEvents)

ReturnRemember ==
    Finish([known |-> TRUE, event |-> event, db |-> db, response |-> response])

NextPair ==
    \/ ReceivePair
    \/ AuthorizeStep
    \/ ExtractParams
    \/ Connect
    \/ Query
    \/ Format
    \/ QueryCatch
    \/ QueryFinally
    \/ Respond
    \/ HandlerCatch
    \/ ReturnRemember

SpecPair == Init /\ [][NextPair]_vars

-----------------------------------------------------------------------------
(* vocabulary of the properties *)

\* The value of the Authorization header of an event that has headers
AuthHeaderOf(e) == Or(e.headers.Authorization, e.headers.authorization)

\* The event passes the credential check
Authorized(e) == e.headers.present /\ Authorize(AuthHeaderOf(e)) = NoError

\* The event has headers and its Authorization header is absent, empty, not
\* of the Bearer <token> shape, or carries a token that does not verify
FailsAuthorization(e) == e.headers.present /\ Authorize(AuthHeaderOf(e)) # NoError

Digits == {"0", "1", "2", "3", "4", "5", "6", "7", "8", "9"}

\* ^\d{4}-\d{2}-\d{2}$
MatchesDatePattern(s) ==
    /\ Len(s) = 10
    /\ \A i \in {1, 2, 3, 4, 6, 7, 9, 10} : SubSeq(s, i, i) \in Digits
    /\ SubSeq(s, 5, 5) = "-"
    /\ SubSeq(s, 8, 8) = "-"

\* The date an event carries under any of the spellings of a key
DateUnder(e, hyphenKey, camelKey) ==
    IF ~e.queryStringParameters.present THEN Undefined
    ELSE LET p == e.queryStringParameters.params
         IN  IF p[hyphenKey] # Undefined THEN p[hyphenKey] ELSE p[camelKey]

StartOf(e) == DateUnder(e, "start-Date", "startDate")
EndOf(e) == DateUnder(e, "end-Date", "endDate")

\* The event carries both dates under this spelling of the keys, and none
\* under another
UsesSpelling(e, startKey, endKey) ==
    /\ e.queryStringParameters.present
    /\ \A k \in ParamKeys :
          (e.queryStringParameters.params[k] # Undefined) <=> k \in {startKey, endKey}

\* Both dates reach the handler under the keys it reads, non-empty
DatesPresent(e) ==
    /\ e.queryStringParameters.present
    /\ ~Falsy(e.queryStringParameters.params["start-Date"])
    /\ ~Falsy(e.queryStringParameters.params["end-Date"])

\* A date is missing under every spelling, or present and malformed
DatesMissingOrMalformed(e) ==
    \/ StartOf(e) = Undefined
    \/ EndOf(e) = Undefined
    \/ ~MatchesDatePattern(StartOf(e))
    \/ ~MatchesDatePattern(EndOf(e))

\* The database fails this invocation: connect, query or a row the formatter
\* throws on
DbFails(d) ==
    \/ d.connect # NoError
    \/ d.query # NoError
    \/ \E i \in 1..Len(d.rows) : FormatThrows(d.rows[i])

\* The text of the error the driver (or the formatter) raised
OriginalError(d) ==
    IF d.connect # NoError THEN d.connect
    ELSE IF d.query # NoError THEN d.query
    ELSE MsgInvalidTime

NumericFields == {"Transaction_Gross", "Transaction_Net", "Transaction_Tax",
                  "Transaction_Service_Charge", "Transaction_Discount"}

\* The numeric fields of one record of a 200 body, by name
NumbersOf(item) ==
    [f \in NumericFields |->
        CASE f = "Transaction_Gross" -> item.Transaction_Gross
          [] f = "Transaction_Net" -> item.Transaction_Net
          [] f = "Transaction_Tax" -> item.Transaction_Tax
          [] f = "Transaction_Service_Charge" -> item.Transaction_Service_Charge
          [] f = "Transaction_Discount" -> item.Transaction_Discount]

\* The column a numeric output field is read from
SourceOf(row) ==
    [f \in NumericFields \ {"Transaction_Discount"} |->
        CASE f = "Transaction_Gross" -> row.transaction_gross
          [] f = "Transaction_Net" -> row.calculated_net
          [] f = "Transaction_Tax" -> row.transaction_tax
          [] f = "Transaction_Service_Charge" -> row.transaction_service_charge]

Succeeded == pc = "done" /\ response.statusCode = 200

-----------------------------------------------------------------------------
(* properties *)

C2_UnauthorizedIs401 ==
    (pc = "done" /\ FailsAuthorization(event))
        => /\ response.statusCode = 401
           /\ response.body = JsonMessage(MsgUnauthorizedBody)

\* C3: every authorized request with a date missing (no query parameters at
\* all included) or not matching ^\d{4}-\d{2}-\d{2}$ is answered 400 with a
\* message body, and its dates are never passed to the query.
C3_BadDatesAre400 ==
    (Authorized(event) /\ DatesMissingOrMalformed(event))
        => /\ queryArgs = <<>>
           /\ pc = "done" => /\ response.statusCode = 400
                             /\ response.body.kind = "object"

\* C4: a call of queryTransactions calls pool.connect at most once, releases
\* the client exactly once if and only if it acquired one, and holds nothing
\* once it has finished.
C4_ReleaseExactlyOnce ==
    /\ connectCalls <= 1
    /\ acquired <= connectCalls
    /\ released <= acquired
    /\ held = acquired - released
    /\ pc \in {"query", "format"} => acquired = 1 /\ released = 0
    /\ pc \in {"respond", "catch", "done", "idle"} => released = acquired /\ held = 0

\* A call that acquired a client and then failed while formatting has
\* released it once.
C4_Witness ==
    /\ pc = "catch"
    /\ caught = MsgInvalidTime
    /\ acquired = 1
    /\ released = 1

\* C5: when connect, query or formatting fails for an authorized request with
\* both dates, the answer is 500 with a message that does not contain the
\* original error text and no records; a response carries the whole formatted
\* row set with status 200 or no rows at all.
C5_FailureIsGeneric500 ==
    pc = "done" =>
        /\ (Authorized(event) /\ DatesPresent(event) /\ DbFails(db))
              => /\ response.statusCode = 500
                 /\ response.body.kind = "object"
                 /\ ~Includes(response.body.message, OriginalError(db))
        /\ response.body.kind = "array"
              => /\ response.statusCode = 200
                 /\ Len(response.body.items) = Len(db.rows)
        /\ response.statusCode = 200 => response.body.kind = "array"

\* A failed query has been answered.
C5_Witness ==
    /\ pc = "done"
    /\ db.query # NoError
    /\ logged = <<db.query>>
    /\ response.statusCode = 500

\* C6: the array of a 200 response has as many entries as the query returned
\* rows and its i-th entry is the formatting of the i-th row alone.
C6_OneEntryPerRow ==
    Succeeded =>
        /\ response.body.kind = "array"
        /\ Len(response.body.items) = Len(db.rows)
        /\ \A i \in 1..Len(db.rows) :
              response.body.items[i] = JsonRecord(FormatRow(db.rows[i]))

\* A 200 response for two rows.
C6_Witness ==
    /\ Succeeded
    /\ Len(db.rows) = 2
    /\ db.rows[1] # db.rows[2]

\* C7: in every record of a 200 response the five amounts are numbers with
\* Gross = Net + Tax + ServiceCharge + Discount, exactly in hundredths.
C7_DiscountIdentity ==
    Succeeded =>
        \A i \in 1..Len(response.body.items) :
            LET n == NumbersOf(response.body.items[i])
            IN  /\ \A f \in NumericFields : n[f].json = "number"
                /\ n["Transaction_Gross"].v =
                      n["Transaction_Net"].v + n["Transaction_Tax"].v
                      + n["Transaction_Service_Charge"].v
                      + n["Transaction_Discount"].v

\* The part of C7 the formatter does keep: on a row without null amounts the
\* five outputs are two-decimal numbers and satisfy the identity.
DiscountIdentityOnNonNullRows ==
    Succeeded =>
        \A i \in 1..Len(response.body.items) :
            (\A f \in DOMAIN SourceOf(db.rows[i]) : ~SourceOf(db.rows[i])[f].null)
                => LET n == NumbersOf(response.body.items[i])
                   IN  /\ \A f \in NumericFields :
                             n[f].json = "number" /\ n[f].v % 10 = 0
                       /\ n["Transaction_Gross"].v =
                             n["Transaction_Net"].v + n["Transaction_Tax"].v
                             + n["Transaction_Service_Charge"].v
                             + n["Transaction_Discount"].v

\* C8: two authorized requests with the same start and end values against the
\* same data, one under startDate/endDate and one under start-Date/end-Date,
\* get the same response.
C8_SpellingAgnostic ==
    (/\ pc = "done"
     /\ prev.known
     /\ prev.db = db
     /\ prev.event.headers = event.headers
     /\ Authorized(event)
     /\ UsesSpelling(prev.event, "startDate", "endDate")
     /\ UsesSpelling(event, "start-Date", "end-Date")
     /\ StartOf(prev.event) = StartOf(event)
     /\ EndOf(prev.event) = EndOf(event))
        => response = prev.response

\* C9: every amount of every record of a 200 response is a number with at
\* most two decimal digits, and a null source value is emitted as 0.00.
C9_TwoDecimalNumbers ==
    Succeeded =>
        \A i \in 1..Len(response.body.items) :
            LET n == NumbersOf(response.body.items[i])
                src == SourceOf(db.rows[i])
            IN  /\ \A f \in NumericFields :
                      n[f].json = "number" /\ n[f].v % 10 = 0
                /\ \A f \in DOMAIN src :
                      src[f].null => n[f] = [json |-> "number", v |-> 0]

\* C10: an invocation ends in one response whose status is 200, 400, 401 or
\* 500 and whose Content-Type is application/json, whatever the event and the
\* database do; 401 is given only when authorize is what failed.
C10_OneJsonResponse ==
    /\ pc \in {"idle", "auth", "params", "connect", "query", "format", "qcatch",
               "qfinally", "respond", "catch", "done"}
    /\ pc # "done" => response = NoResponse
    /\ pc = "catch" => thrown # NoError
    /\ pc = "done" =>
          /\ response.statusCode \in {200, 400, 401, 500}
          /\ response.headers = [ContentType |-> "application/json"]
          /\ response.statusCode = 401 => FailsAuthorization(event)

\* An authorized request whose query failed with a text that names
\* 'Unauthorized' has been answered 500.
C10_Witness ==
    /\ pc = "done"
    /\ Authorized(event)
    /\ Includes(OriginalError(db), "Unauthorized")
    /\ db.query # NoError
    /\ response.statusCode = 500

====
